---- MODULE Spec2Model ----
(***************************************************************************)
(* aws-credentials-reporter (src/main.go): one fetch task per distinct     *)
(* profile behind a counting gate of capacity 4, a bounded polling loop    *)
(* per fetch, an errgroup join, and the merge of the per-profile reports   *)
(* into one table that is handed to the CSV sink.                          *)
(*                                                                         *)
(* Tasks are numbered 1..Len(Profiles) by their position in the working    *)
(* set; the Go index of task t is t - 1 and is what the idx field and      *)
(* arnIdx hold.                                                            *)
(***************************************************************************)
EXTENDS Integers, Sequences, FiniteSets, TLC

VARIABLES
    args,         \* the -p values as flags.Parse delivered them
    Profiles,     \* opts.Profiles
    ExcludeRoot,  \* opts.ExcludeRoot
    remote,       \* per profile: what the AWS side answers to this run
    mainPc,       \* position of main
    exit,         \* how the process ended ("running" while it has not)
    next,         \* number of eg.Go calls made by the dispatch loop
    pc,           \* position of each fetch task
    i,            \* loop variable of the polling loop, per task
    err,          \* err of generateCredentialReport, per task
    report,       \* payload held by report, per task
    header,       \* header returned to the task closure
    rows,         \* rows returned to the task closure
    ret,          \* value the task closure returns to the errgroup
    sem,          \* number of tokens in the channel sem
    results,      \* the slice results
    egErr,        \* err recorded by the errgroup (errOnce)
    arnIdx,       \* arnIdx of main (Go index, -1 when not found)
    allResults,   \* the merged table
    file,         \* state of the output file
    written,      \* records handed to the file by WriteAll
    cfgCalls,     \* history: LoadDefaultConfig calls, per task
    genCalls,     \* history: GenerateCredentialReport calls, per task
    getCalls,     \* history: GetCredentialReport calls, per task
    sleeps,       \* history: time.Sleep calls, per task
    stores,       \* history: writes to each slot of results
    stored,       \* history: the tasks in the order they wrote their result
    firstFailed,  \* history: task whose fetch returned an error first (0: none)
    firstRecorded \* history: task whose error reached the errgroup first (0: none)

vars == << args, Profiles, ExcludeRoot, remote, mainPc, exit, next, pc, i, err,
           report, header, rows, ret, sem, results, egErr, arnIdx, allResults,
           file, written, cfgCalls, genCalls, getCalls, sleeps, stores, stored,
           firstFailed, firstRecorded >>

(***************************************************************************)
(* Program constants.                                                      *)
(***************************************************************************)
SemCap == 4
MaxAttempts == 10
RootSuffix == ":root"
ArnColumn == "arn"
ProfileColumn == "profile"

(***************************************************************************)
(* Bounds of the explored inputs.                                          *)
(***************************************************************************)
GateProfiles == 5
MergeProfiles == 2
DedupNames == 3
MaxArgs == 5

Name(k) == "acct" \o ToString(k)

Range(s) == { s[k] : k \in DOMAIN s }

SeqsUpTo(S, n) == UNION { [1..m -> S] : m \in 1..n }

(***************************************************************************)
(* Error values.                                                           *)
(***************************************************************************)
NoErr == [op |-> "nil", profile |-> "", cause |-> ""]

Wrap(op, profile, cause) == [op |-> op, profile |-> profile, cause |-> cause]

GetErr(k) == "GetCredentialReport#" \o ToString(k)

(***************************************************************************)
(* strings.HasSuffix                                                       *)
(***************************************************************************)
HasSuffix(s, suffix) ==
    /\ Len(s) >= Len(suffix)
    /\ SubSeq(s, Len(s) - Len(suffix) + 1, Len(s)) = suffix

(***************************************************************************)
(* csv.Reader.ReadAll with the default FieldsPerRecord = 0: a payload is   *)
(* its records as the reader tokenises them, or carries a quoting error;   *)
(* every record must have as many fields as the first one.                 *)
(***************************************************************************)
ReadAll(content) ==
    IF content.quote
    THEN [err |-> "bare quote", records |-> << >>]
    ELSE IF \E k \in DOMAIN content.records :
                Len(content.records[k]) # Len(content.records[1])
         THEN [err |-> "wrong number of fields", records |-> << >>]
         ELSE [err |-> "", records |-> content.records]

(***************************************************************************)
(* The zero value of profileResult, and the slice make() returns.          *)
(***************************************************************************)
ZeroResult == [idx |-> 0, profile |-> "", header |-> << >>, rows |-> << >>]

(* Variant of DedupeFrom: only a repetition of the previous profile is     *)
(* dropped.                                                                *)
RECURSIVE DedupeAdjacent(_, _, _)
DedupeAdjacent(s, k, unique) ==
    IF k > Len(s)
    THEN unique
    ELSE DedupeAdjacent(s, k + 1,
                        IF k > 1 /\ s[k] = s[k - 1] THEN unique ELSE Append(unique, s[k]))

(***************************************************************************)
(* main, lines 82-93: deduplicate profiles, preserving order.              *)
(***************************************************************************)
RECURSIVE DedupeFrom(_, _, _)
DedupeFrom(s, k, unique) ==
    IF k > Len(s)
    THEN unique
    ELSE DedupeFrom(s, k + 1,
                    IF s[k] \in Range(unique) THEN unique ELSE Append(unique, s[k]))

Dedupe(s) == DedupeFrom(s, 1, << >>)

(***************************************************************************)
(* sort.Slice by idx (lines 124-126): not a stable sort, so any            *)
(* arrangement of the same elements that is ordered by idx may come out.   *)
(***************************************************************************)
Perms(n) == { f \in [1..n -> 1..n] : \A a, b \in 1..n : a # b => f[a] # f[b] }

(* Variant of SortedByIdx: the comparator reversed.                        *)
SortedByIdxDesc(rs) ==
    { [k \in 1..Len(rs) |-> rs[f[k]]] : f \in
        { g \in Perms(Len(rs)) :
            \A a, b \in 1..Len(rs) : a < b => ~(rs[g[a]].idx < rs[g[b]].idx) } }

SortedByIdx(rs) ==
    { [k \in 1..Len(rs) |-> rs[f[k]]] : f \in
        { g \in Perms(Len(rs)) :
            \A a, b \in 1..Len(rs) : a < b => ~(rs[g[b]].idx < rs[g[a]].idx) } }

(* Variant of FindArn: falls back to the first column.                     *)
FindArnOrFirst(h) ==
    IF \E k \in DOMAIN h : h[k] = ArnColumn
    THEN (CHOOSE k \in DOMAIN h :
             h[k] = ArnColumn /\ \A j \in 1..(k - 1) : h[j] # ArnColumn) - 1
    ELSE 0

(***************************************************************************)
(* Lines 129-136: Go index of the first column named "arn", or -1.         *)
(***************************************************************************)
FindArn(h) ==
    IF \E k \in DOMAIN h : h[k] = ArnColumn
    THEN (CHOOSE k \in DOMAIN h :
             h[k] = ArnColumn /\ \A j \in 1..(k - 1) : h[j] # ArnColumn) - 1
    ELSE -1

(***************************************************************************)
(* Lines 149-159: the rows of one result appended to the table; reading    *)
(* row[arnIdx] outside the row is a run-time panic.                        *)
(***************************************************************************)
(* Variant of KeepRow: only a well-formed ARN counts as a root user.       *)
KeepRowParsed(row, exclude, idx) ==
    ~(exclude /\ SubSeq(row[idx + 1], 1, 4) = "arn:"
              /\ HasSuffix(row[idx + 1], RootSuffix))

KeepRow(row, exclude, idx) == ~(exclude /\ HasSuffix(row[idx + 1], RootSuffix))

(* Variant of AppendRows: the profile is added after the cells.            *)
RECURSIVE AppendRowsProfileLast(_, _, _, _, _)
AppendRowsProfileLast(acc, res, k, exclude, idx) ==
    IF acc.panic \/ k > Len(res.rows)
    THEN acc
    ELSE LET row == res.rows[k] IN
         IF exclude /\ ~(idx >= 0 /\ idx < Len(row))
         THEN [acc EXCEPT !.panic = TRUE]
         ELSE IF KeepRow(row, exclude, idx)
              THEN AppendRowsProfileLast(
                       [acc EXCEPT !.table = Append(@, row \o <<res.profile>>)],
                       res, k + 1, exclude, idx)
              ELSE AppendRowsProfileLast(acc, res, k + 1, exclude, idx)

RECURSIVE AppendRows(_, _, _, _, _)
AppendRows(acc, res, k, exclude, idx) ==
    IF acc.panic \/ k > Len(res.rows)
    THEN acc
    ELSE LET row == res.rows[k] IN
         IF exclude /\ ~(idx >= 0 /\ idx < Len(row))
         THEN [acc EXCEPT !.panic = TRUE]
         ELSE IF KeepRow(row, exclude, idx)
              THEN AppendRows([acc EXCEPT !.table = Append(@, <<res.profile>> \o row)],
                              res, k + 1, exclude, idx)
              ELSE AppendRows(acc, res, k + 1, exclude, idx)

RECURSIVE MergeFrom(_, _, _, _, _)
MergeFrom(acc, rs, k, exclude, idx) ==
    IF acc.panic \/ k > Len(rs)
    THEN acc
    ELSE MergeFrom(AppendRows(acc, rs[k], 1, exclude, idx), rs, k + 1, exclude, idx)

(***************************************************************************)
(* Lines 143-159.                                                          *)
(***************************************************************************)
MergeTable(rs, exclude, idx) ==
    MergeFrom([panic |-> FALSE,
               table |-> IF Len(rs) > 0
                         THEN << <<ProfileColumn>> \o rs[1].header >>
                         ELSE << >>],
              rs, 1, exclude, idx)

(***************************************************************************)
(* Report payloads and remote behaviours the runs are explored with.       *)
(***************************************************************************)
Hdr == <<"user", "arn", "active">>
Alice == <<"alice", "arn:aws:iam::1:user/alice", "true">>
Root2 == <<"root", "arn:aws:iam::2:root", "true">>
Odd == <<"svc", "not-an-arn:root", "false">>

Payload(records) == [quote |-> FALSE, records |-> records]

Empty == Payload(<< >>)
HeaderOnly == Payload(<<Hdr>>)

MergePayloads ==
    { Empty, HeaderOnly,
      Payload(<<Hdr, Alice>>),
      Payload(<<Hdr, Root2>>),
      Payload(<<Hdr, Alice, Root2, Odd, Alice>>),
      Payload(<< <<"user", "active">>, <<"bob", "true">> >>),
      Payload(<< <<"user", "active", "arn">>,
                 <<"carol", "true", "arn:aws:iam::3:root">> >>) }

FetchPayloads ==
    { Empty,
      Payload(<<Hdr, Alice, Root2>>),
      Payload(<<Hdr, <<"bob">> >>),
      [quote |-> TRUE, records |-> <<Hdr, Alice>>] }

Ready(content) ==
    [config |-> TRUE, generate |-> TRUE, notReady |-> 0, content |-> content]

NoConfig ==
    [config |-> FALSE, generate |-> TRUE, notReady |-> 0, content |-> Empty]

FetchBehaviours ==
    [config : BOOLEAN, generate : BOOLEAN, notReady : 0..MaxAttempts,
     content : FetchPayloads]

GateBehaviours == { NoConfig, Ready(HeaderOnly) }

(* Profile names matter only through equality: argument lists are taken    *)
(* up to renaming, each new name being the next unused one.                *)
FirstUse(s) ==
    \A k \in DOMAIN s :
        \E j \in 1..(Cardinality(Range(SubSeq(s, 1, k - 1))) + 1) : s[k] = Name(j)

FirstNames(n) == [k \in 1..n |-> Name(k)]

(***************************************************************************)
(* The state after flags.Parse (line 78) for four families of runs: more   *)
(* profiles than the gate admits (only the first or the last of them may   *)
(* be configured), one profile against every remote behaviour, few         *)
(* profiles with every combination of payloads, and argument lists with    *)
(* repeated profiles (none of them configured).                            *)
(***************************************************************************)
InitGate ==
    /\ args = FirstNames(GateProfiles)
    /\ remote \in [Range(args) -> GateBehaviours]
    /\ \A p, q \in Range(args) : remote[p].config /\ remote[q].config => p = q
    /\ \A p \in Range(args) : remote[p].config => p \in {args[1], args[Len(args)]}
    /\ ExcludeRoot = FALSE

InitFetch ==
    /\ args = FirstNames(1)
    /\ remote \in [Range(args) -> FetchBehaviours]
    /\ ExcludeRoot \in BOOLEAN

InitMerge ==
    /\ \E n \in 1..MergeProfiles : args = FirstNames(n)
    /\ remote \in [Range(args) -> { Ready(c) : c \in MergePayloads }]
    /\ ExcludeRoot \in BOOLEAN

InitDedupe ==
    /\ args \in SeqsUpTo(Range(FirstNames(DedupNames)), MaxArgs)
    /\ FirstUse(args)
    /\ remote = [p \in Range(args) |-> NoConfig]
    /\ ExcludeRoot = FALSE

Start ==
    /\ Profiles = args
    /\ mainPc = "dedupe"
    /\ exit = "running"
    /\ next = 0
    /\ pc = << >>
    /\ i = << >>
    /\ err = << >>
    /\ report = << >>
    /\ header = << >>
    /\ rows = << >>
    /\ ret = << >>
    /\ sem = 0
    /\ results = << >>
    /\ egErr = NoErr
    /\ arnIdx = -1
    /\ allResults = << >>
    /\ file = "absent"
    /\ written = << >>
    /\ cfgCalls = << >>
    /\ genCalls = << >>
    /\ getCalls = << >>
    /\ sleeps = << >>
    /\ stores = << >>
    /\ stored = << >>
    /\ firstFailed = 0
    /\ firstRecorded = 0

Init == (InitGate \/ InitFetch \/ InitMerge \/ InitDedupe) /\ Start

(* The runs of one family; the one-profile runs belong to each.            *)
InitFetchRuns == InitFetch /\ Start
InitGateRuns == (InitGate \/ InitFetch) /\ Start
InitMergeRuns == (InitMerge \/ InitFetch) /\ Start
InitDedupeRuns == (InitDedupe \/ InitFetch) /\ Start

Tasks == DOMAIN pc

mainVars == << mainPc, exit, next, results, egErr, arnIdx, allResults, file, written >>
inputVars == << args, Profiles, ExcludeRoot, remote >>
fetchVars == << i, err, report, header, rows, cfgCalls, genCalls, getCalls, sleeps >>

(***************************************************************************)
(* main, lines 82-98: the working set, the gate and the result slots.      *)
(***************************************************************************)
DedupeProfiles ==
    /\ mainPc = "dedupe"
    /\ Profiles' = Dedupe(Profiles)
    /\ LET n == Len(Profiles') IN
        /\ mainPc' = IF n = 0 THEN "wait" ELSE "dispatch"
        /\ results' = [t \in 1..n |-> ZeroResult]
        /\ pc' = [t \in 1..n |-> "idle"]
        /\ i' = [t \in 1..n |-> 0]
        /\ err' = [t \in 1..n |-> ""]
        /\ report' = [t \in 1..n |-> Empty]
        /\ header' = [t \in 1..n |-> << >>]
        /\ rows' = [t \in 1..n |-> << >>]
        /\ ret' = [t \in 1..n |-> NoErr]
        /\ cfgCalls' = [t \in 1..n |-> 0]
        /\ genCalls' = [t \in 1..n |-> 0]
        /\ getCalls' = [t \in 1..n |-> 0]
        /\ sleeps' = [t \in 1..n |-> 0]
        /\ stores' = [t \in 1..n |-> 0]
    /\ sem' = 0
    /\ UNCHANGED << args, ExcludeRoot, remote, exit, next, egErr, arnIdx,
                    allResults, file, written, stored, firstFailed, firstRecorded >>

(***************************************************************************)
(* Lines 100-117: one eg.Go per profile; the goroutine starts at line 104. *)
(***************************************************************************)
Go ==
    /\ mainPc = "dispatch"
    /\ next < Len(Profiles)
    /\ pc' = [pc EXCEPT ![next + 1] = "gate"]
    /\ next' = next + 1
    /\ mainPc' = IF next + 1 = Len(Profiles) THEN "wait" ELSE "dispatch"
    /\ UNCHANGED << inputVars, fetchVars, exit, results, egErr, arnIdx, allResults,
                    file, written, ret, sem, stores, stored, firstFailed,
                    firstRecorded >>

(* Variant of Acquire: the send never blocks (an unbuffered admission).    *)
AcquireUngated(t) ==
    /\ pc[t] = "gate"
    /\ sem' = sem + 1
    /\ pc' = [pc EXCEPT ![t] = "config"]
    /\ UNCHANGED << inputVars, mainVars, fetchVars, ret, stores, stored, firstFailed,
                    firstRecorded >>

(***************************************************************************)
(* Line 104: sem <- struct{}{} blocks while the channel holds 4 tokens.    *)
(***************************************************************************)
Acquire(t) ==
    /\ pc[t] = "gate"
    /\ sem < SemCap
    /\ sem' = sem + 1
    /\ pc' = [pc EXCEPT ![t] = "config"]
    /\ UNCHANGED << inputVars, mainVars, fetchVars, ret, stores, stored, firstFailed,
                    firstRecorded >>

(* Variant of ReturnErr: an error return that skips the deferred release.  *)
ReturnErrKeepingToken(t, e) ==
    /\ ret' = [ret EXCEPT ![t] = e]
    /\ pc' = [pc EXCEPT ![t] = "record"]
    /\ firstFailed' = IF firstFailed = 0 THEN t ELSE firstFailed

(***************************************************************************)
(* An error return of generateCredentialReport and of the task closure     *)
(* (lines 109-111); the deferred release runs next.                        *)
(***************************************************************************)
ReturnErr(t, e) ==
    /\ ret' = [ret EXCEPT ![t] = e]
    /\ pc' = [pc EXCEPT ![t] = "release"]
    /\ firstFailed' = IF firstFailed = 0 THEN t ELSE firstFailed

(***************************************************************************)
(* Lines 34-43.                                                            *)
(***************************************************************************)
LoadConfig(t) ==
    /\ pc[t] = "config"
    /\ cfgCalls' = [cfgCalls EXCEPT ![t] = @ + 1]
    /\ IF remote[Profiles[t]].config
       THEN /\ pc' = [pc EXCEPT ![t] = "generate"]
            /\ UNCHANGED << ret, firstFailed >>
       ELSE ReturnErr(t, Wrap("loading profile", Profiles[t], "LoadDefaultConfig"))
    /\ UNCHANGED << inputVars, mainVars, i, err, report, header, rows, genCalls,
                    getCalls, sleeps, sem, stores, stored,
                    firstRecorded >>

(***************************************************************************)
(* Lines 45-47.                                                            *)
(***************************************************************************)
Generate(t) ==
    /\ pc[t] = "generate"
    /\ genCalls' = [genCalls EXCEPT ![t] = @ + 1]
    /\ IF remote[Profiles[t]].generate
       THEN /\ pc' = [pc EXCEPT ![t] = "get"]
            /\ UNCHANGED << ret, firstFailed >>
       ELSE ReturnErr(t, Wrap("generate credential report", Profiles[t],
                              "GenerateCredentialReport"))
    /\ UNCHANGED << inputVars, mainVars, i, err, report, header, rows, cfgCalls,
                    getCalls, sleeps, sem, stores, stored,
                    firstRecorded >>

(***************************************************************************)
(* Lines 60-62: after the loop, the last err decides.                      *)
(***************************************************************************)
AfterLoop(t, e) ==
    IF e # ""
    THEN ReturnErr(t, Wrap("fetch credential report", Profiles[t], e))
    ELSE /\ pc' = [pc EXCEPT ![t] = "parse"]
         /\ UNCHANGED << ret, firstFailed >>

(* Variant of Get: the last failed attempt leaves the loop without sleep.  *)
GetNoFinalSleep(t) ==
    /\ pc[t] = "get"
    /\ getCalls' = [getCalls EXCEPT ![t] = @ + 1]
    /\ IF getCalls[t] >= remote[Profiles[t]].notReady
       THEN /\ report' = [report EXCEPT ![t] = remote[Profiles[t]].content]
            /\ err' = [err EXCEPT ![t] = ""]
            /\ AfterLoop(t, "")
       ELSE /\ err' = [err EXCEPT ![t] = GetErr(getCalls[t] + 1)]
            /\ IF i[t] + 1 < MaxAttempts
               THEN /\ pc' = [pc EXCEPT ![t] = "sleep"]
                    /\ UNCHANGED << ret, firstFailed >>
               ELSE AfterLoop(t, GetErr(getCalls[t] + 1))
            /\ UNCHANGED report
    /\ UNCHANGED << inputVars, mainVars, i, header, rows, cfgCalls, genCalls,
                    sleeps, sem, stores, stored,
                    firstRecorded >>

(***************************************************************************)
(* Lines 50-55: one retrieval attempt; the remote report is ready after    *)
(* notReady failed attempts.                                               *)
(***************************************************************************)
Get(t) ==
    /\ pc[t] = "get"
    /\ getCalls' = [getCalls EXCEPT ![t] = @ + 1]
    /\ IF getCalls[t] >= remote[Profiles[t]].notReady
       THEN /\ report' = [report EXCEPT ![t] = remote[Profiles[t]].content]
            /\ err' = [err EXCEPT ![t] = ""]
            /\ AfterLoop(t, "")
       ELSE /\ err' = [err EXCEPT ![t] = GetErr(getCalls[t] + 1)]
            /\ pc' = [pc EXCEPT ![t] = "sleep"]
            /\ UNCHANGED << report, ret, firstFailed >>
    /\ UNCHANGED << inputVars, mainVars, i, header, rows, cfgCalls, genCalls,
                    sleeps, sem, stores, stored,
                    firstRecorded >>

(* Variant of Sleep: the loop gives up one attempt early.                  *)
SleepOneShort(t) ==
    /\ pc[t] = "sleep"
    /\ sleeps' = [sleeps EXCEPT ![t] = @ + 1]
    /\ i' = [i EXCEPT ![t] = @ + 1]
    /\ IF i[t] + 1 < MaxAttempts - 1
       THEN /\ pc' = [pc EXCEPT ![t] = "get"]
            /\ UNCHANGED << ret, firstFailed >>
       ELSE AfterLoop(t, err[t])
    /\ UNCHANGED << inputVars, mainVars, err, report, header, rows, cfgCalls,
                    genCalls, getCalls, sem, stores, stored, firstRecorded >>

(* Variant of Sleep: the next round requests the generation again.         *)
SleepRegenerate(t) ==
    /\ pc[t] = "sleep"
    /\ sleeps' = [sleeps EXCEPT ![t] = @ + 1]
    /\ i' = [i EXCEPT ![t] = @ + 1]
    /\ IF i[t] + 1 < MaxAttempts
       THEN /\ pc' = [pc EXCEPT ![t] = "generate"]
            /\ UNCHANGED << ret, firstFailed >>
       ELSE AfterLoop(t, err[t])
    /\ UNCHANGED << inputVars, mainVars, err, report, header, rows, cfgCalls,
                    genCalls, getCalls, sem, stores, stored, firstRecorded >>

(***************************************************************************)
(* Line 57, then i++ and the loop condition of line 50.                    *)
(***************************************************************************)
Sleep(t) ==
    /\ pc[t] = "sleep"
    /\ sleeps' = [sleeps EXCEPT ![t] = @ + 1]
    /\ i' = [i EXCEPT ![t] = @ + 1]
    /\ IF i[t] + 1 < MaxAttempts
       THEN /\ pc' = [pc EXCEPT ![t] = "get"]
            /\ UNCHANGED << ret, firstFailed >>
       ELSE AfterLoop(t, err[t])
    /\ UNCHANGED << inputVars, mainVars, err, report, header, rows, cfgCalls,
                    genCalls, getCalls, sem, stores, stored, firstRecorded >>

(* Variant of Parse: a payload without data rows is treated as empty.      *)
ParseNeedsRows(t) ==
    /\ pc[t] = "parse"
    /\ LET r == ReadAll(report[t]) IN
        IF r.err # ""
        THEN /\ ReturnErr(t, Wrap("parse CSV", Profiles[t], r.err))
             /\ UNCHANGED << header, rows >>
        ELSE /\ header' = [header EXCEPT ![t] =
                              IF Len(r.records) <= 1 THEN << >> ELSE Head(r.records)]
             /\ rows' = [rows EXCEPT ![t] =
                              IF Len(r.records) <= 1 THEN << >> ELSE Tail(r.records)]
             /\ pc' = [pc EXCEPT ![t] = "store"]
             /\ UNCHANGED << ret, firstFailed >>
    /\ UNCHANGED << inputVars, mainVars, i, err, report, cfgCalls, genCalls,
                    getCalls, sleeps, sem, stores, stored, firstRecorded >>

(***************************************************************************)
(* Lines 64-75.                                                            *)
(***************************************************************************)
Parse(t) ==
    /\ pc[t] = "parse"
    /\ LET r == ReadAll(report[t]) IN
        IF r.err # ""
        THEN /\ ReturnErr(t, Wrap("parse CSV", Profiles[t], r.err))
             /\ UNCHANGED << header, rows >>
        ELSE /\ header' = [header EXCEPT ![t] =
                              IF Len(r.records) = 0 THEN << >> ELSE Head(r.records)]
             /\ rows' = [rows EXCEPT ![t] =
                              IF Len(r.records) = 0 THEN << >> ELSE Tail(r.records)]
             /\ pc' = [pc EXCEPT ![t] = "store"]
             /\ UNCHANGED << ret, firstFailed >>
    /\ UNCHANGED << inputVars, mainVars, i, err, report, cfgCalls, genCalls,
                    getCalls, sleeps, sem, stores, stored,
                    firstRecorded >>

(* Variant of Slot: results are filled in the order the tasks complete.    *)
SlotByCompletion(t) == Len(stored) + 1

(***************************************************************************)
(* Lines 113-115: the task fills the slot at its own index.                *)
(***************************************************************************)
Slot(t) == t

Store(t) ==
    /\ pc[t] = "store"
    /\ results' = [results EXCEPT ![Slot(t)] =
                      [idx |-> t - 1, profile |-> Profiles[t],
                       header |-> header[t], rows |-> rows[t]]]
    /\ stores' = [stores EXCEPT ![Slot(t)] = @ + 1]
    /\ stored' = Append(stored, t)
    /\ pc' = [pc EXCEPT ![t] = "release"]
    /\ UNCHANGED << inputVars, fetchVars, mainPc, exit, next, egErr, arnIdx,
                    allResults, file, written, ret, sem, firstFailed, firstRecorded >>

(* Variant of Release: the token is never taken back out of the channel.   *)
ReleaseLeak(t) ==
    /\ pc[t] = "release"
    /\ pc' = [pc EXCEPT ![t] = "record"]
    /\ UNCHANGED << inputVars, mainVars, fetchVars, ret, sem, stores, stored,
                    firstFailed, firstRecorded >>

(***************************************************************************)
(* Line 105: the deferred <-sem, on every return path.                     *)
(***************************************************************************)
Release(t) ==
    /\ pc[t] = "release"
    /\ sem > 0
    /\ sem' = sem - 1
    /\ pc' = [pc EXCEPT ![t] = "record"]
    /\ UNCHANGED << inputVars, mainVars, fetchVars, ret, stores, stored, firstFailed,
                    firstRecorded >>

(* Variant of Record: a later error replaces the one kept.                 *)
RecordLast(t) ==
    /\ pc[t] = "record"
    /\ egErr' = IF ret[t] # NoErr THEN ret[t] ELSE egErr
    /\ firstRecorded' = IF ret[t] # NoErr /\ firstRecorded = 0 THEN t ELSE firstRecorded
    /\ pc' = [pc EXCEPT ![t] = "done"]
    /\ UNCHANGED << inputVars, fetchVars, mainPc, exit, next, results, arnIdx,
                    allResults, file, written, ret, sem, stores, stored, firstFailed >>

(***************************************************************************)
(* errgroup.Group.Go, line 103: the first non-nil error returned to the    *)
(* group is kept (errOnce), then the goroutine is done.                    *)
(***************************************************************************)
Record(t) ==
    /\ pc[t] = "record"
    /\ egErr' = IF ret[t] # NoErr /\ egErr = NoErr THEN ret[t] ELSE egErr
    /\ firstRecorded' = IF ret[t] # NoErr /\ firstRecorded = 0 THEN t ELSE firstRecorded
    /\ pc' = [pc EXCEPT ![t] = "done"]
    /\ UNCHANGED << inputVars, fetchVars, mainPc, exit, next, results, arnIdx,
                    allResults, file, written, ret, sem, stores, stored, firstFailed >>

taskVars == << pc, ret, sem, stores, stored, firstFailed, firstRecorded >>

(* Variant of Wait: the error of the group is dropped.                     *)
WaitIgnoringErr ==
    /\ mainPc = "wait"
    /\ \A t \in Tasks : pc[t] = "done"
    /\ mainPc' = "sort"
    /\ UNCHANGED << inputVars, fetchVars, taskVars, exit, next, results, egErr, arnIdx,
                    allResults, file, written >>

(***************************************************************************)
(* Lines 119-121: eg.Wait returns when every goroutine is done.            *)
(***************************************************************************)
Wait ==
    /\ mainPc = "wait"
    /\ \A t \in Tasks : pc[t] = "done"
    /\ IF egErr # NoErr
       THEN /\ mainPc' = "exited"
            /\ exit' = "error fetching reports"
       ELSE /\ mainPc' = "sort"
            /\ UNCHANGED exit
    /\ UNCHANGED << inputVars, fetchVars, taskVars, next, results, egErr, arnIdx,
                    allResults, file, written >>

(***************************************************************************)
(* Lines 124-126.                                                          *)
(***************************************************************************)
Sort ==
    /\ mainPc = "sort"
    /\ results' \in SortedByIdx(results)
    /\ mainPc' = "arn"
    /\ UNCHANGED << inputVars, fetchVars, taskVars, exit, next, egErr, arnIdx,
                    allResults, file, written >>

(***************************************************************************)
(* Lines 129-141.                                                          *)
(***************************************************************************)
LocateArn ==
    /\ mainPc = "arn"
    /\ arnIdx' = IF Len(results) > 0 THEN FindArn(results[1].header) ELSE -1
    /\ IF Len(results) > 0 /\ arnIdx' < 0
       THEN /\ mainPc' = "exited"
            /\ exit' = "unable to locate arn column"
       ELSE /\ mainPc' = "merge"
            /\ UNCHANGED exit
    /\ UNCHANGED << inputVars, fetchVars, taskVars, next, results, egErr,
                    allResults, file, written >>

(***************************************************************************)
(* Lines 143-159.                                                          *)
(***************************************************************************)
Merge ==
    /\ mainPc = "merge"
    /\ LET m == MergeTable(results, ExcludeRoot, arnIdx) IN
        IF m.panic
        THEN /\ mainPc' = "exited"
             /\ exit' = "panic: index out of range"
             /\ UNCHANGED allResults
        ELSE /\ mainPc' = "create"
             /\ allResults' = m.table
             /\ UNCHANGED exit
    /\ UNCHANGED << inputVars, fetchVars, taskVars, next, results, egErr, arnIdx,
                    file, written >>

(***************************************************************************)
(* Lines 161-165: os.Create succeeds or fails.                             *)
(***************************************************************************)
Create ==
    /\ mainPc = "create"
    /\ \E ok \in BOOLEAN :
        IF ok
        THEN /\ file' = "created"
             /\ mainPc' = "write"
             /\ UNCHANGED exit
        ELSE /\ mainPc' = "exited"
             /\ exit' = "unable to create CSV"
             /\ UNCHANGED file
    /\ UNCHANGED << inputVars, fetchVars, taskVars, next, results, egErr, arnIdx,
                    allResults, written >>

(***************************************************************************)
(* Lines 169-175: WriteAll hands every record to the file, or stops at a   *)
(* write error after some of them.                                         *)
(***************************************************************************)
WriteAll ==
    /\ mainPc = "write"
    /\ \E n \in 0..Len(allResults) :
        /\ written' = SubSeq(allResults, 1, n)
        /\ exit' = IF n = Len(allResults) THEN "ok" ELSE "error writing CSV"
    /\ mainPc' = "exited"
    /\ file' = "written"
    /\ UNCHANGED << inputVars, fetchVars, taskVars, next, results, egErr, arnIdx,
                    allResults >>

Next ==
    \/ DedupeProfiles
    \/ Go
    \/ \E t \in Tasks : Acquire(t)
    \/ \E t \in Tasks : LoadConfig(t)
    \/ \E t \in Tasks : Generate(t)
    \/ \E t \in Tasks : Get(t)
    \/ \E t \in Tasks : Sleep(t)
    \/ \E t \in Tasks : Parse(t)
    \/ \E t \in Tasks : Store(t)
    \/ \E t \in Tasks : Release(t)
    \/ \E t \in Tasks : Record(t)
    \/ Wait
    \/ Sort
    \/ LocateArn
    \/ Merge
    \/ Create
    \/ WriteAll

Spec == Init /\ [][Next]_vars

SpecFetch == InitFetchRuns /\ [][Next]_vars
SpecGate == InitGateRuns /\ [][Next]_vars
SpecMerge == InitMergeRuns /\ [][Next]_vars
SpecDedupe == InitDedupeRuns /\ [][Next]_vars

(***************************************************************************)
(* The same runs when every remote call returns and the Go scheduler       *)
(* keeps running some goroutine that can take a step.                      *)
(***************************************************************************)
SpecGateLive == InitGateRuns /\ [][Next]_vars /\ WF_vars(Next)

(***************************************************************************)
(* Vocabulary of the properties.                                           *)
(***************************************************************************)
Holding(t) ==
    pc[t] \in {"config", "generate", "get", "sleep", "parse", "store", "release"}

Failed(t) == ret[t] # NoErr

MergedOk ==
    \/ mainPc \in {"create", "write"}
    \/ mainPc = "exited"
       /\ exit \in {"ok", "unable to create CSV", "error writing CSV"}

PayloadHeader(p) ==
    IF Len(remote[p].content.records) = 0
    THEN << >>
    ELSE Head(remote[p].content.records)

PayloadRows(p) ==
    IF Len(remote[p].content.records) = 0
    THEN << >>
    ELSE Tail(remote[p].content.records)

Data == Tail(allResults)

FirstIndex(s, x) ==
    CHOOSE k \in DOMAIN s : s[k] = x /\ \A j \in 1..(k - 1) : s[j] # x

Count(s, x) == Cardinality({ k \in DOMAIN s : s[k] = x })

IsRootCell(row) == HasSuffix(row[arnIdx + 1], ":root")

(***************************************************************************)
(* C1: in every reachable state at most 4 tasks are between acquiring and  *)
(* releasing the admission gate, so at most 4 fetches are in progress.     *)
(***************************************************************************)
C1_GateCeiling == Cardinality({ t \in Tasks : Holding(t) }) <= 4

C1_Witness ==
    /\ Cardinality({ t \in Tasks : Holding(t) }) = 4
    /\ \E t \in Tasks : pc[t] = "gate"

(***************************************************************************)
(* C2: when all fetches succeeded, whatever the order the tasks completed  *)
(* in, the data rows of the merged table are grouped by profile in the     *)
(* order of first appearance in the input, and the rows of one profile     *)
(* keep the order of that profile's payload.                               *)
(***************************************************************************)
C2_OrderInvariance ==
    MergedOk =>
        /\ \A a \in DOMAIN Data : Data[a][1] \in Range(args)
        /\ \A a, b \in DOMAIN Data :
              a < b => FirstIndex(args, Data[a][1]) <= FirstIndex(args, Data[b][1])
        /\ \A p \in Range(args) :
              LET mine == SelectSeq(Data, LAMBDA r : r[1] = p)
                  kept == SelectSeq(PayloadRows(p),
                                    LAMBDA r : ~(ExcludeRoot /\ IsRootCell(r)))
              IN  [k \in DOMAIN mine |-> Tail(mine[k])] = kept

C2_Witness ==
    /\ MergedOk
    /\ stored = <<2, 1>>
    /\ \E a, b \in DOMAIN Data : a < b /\ Data[a][1] = Name(1) /\ Data[b][1] = Name(2)

(***************************************************************************)
(* C3: once the fetch of any profile has failed, the run can only end as   *)
(* a fetch failure; no merged table is built and the output file is never  *)
(* created or written, whatever the other profiles delivered.              *)
(***************************************************************************)
C3_FailureAbortsOutput ==
    (\E t \in Tasks : Failed(t)) =>
        /\ mainPc \in {"dispatch", "wait", "exited"}
        /\ mainPc = "exited" => exit = "error fetching reports"
        /\ allResults = << >>
        /\ file = "absent"
        /\ written = << >>

C3_Witness ==
    /\ mainPc = "exited"
    /\ \E t \in Tasks : Failed(t)
    /\ \E t \in Tasks : stores[t] = 1

(***************************************************************************)
(* C4: a fetch whose generation request succeeded attempts retrieval at    *)
(* most 10 times and never after a success; once it has left the loop,     *)
(* if the report became ready within 10 attempts it holds that payload     *)
(* and has no retrieval error, and otherwise it has made 10 attempts and   *)
(* fails with a retrieval error carrying the error of the 10th attempt.    *)
(***************************************************************************)
C4_BoundedRetry ==
    \A t \in Tasks :
        LET b == remote[Profiles[t]] IN
        /\ getCalls[t] <= 10
        /\ getCalls[t] <= b.notReady + 1
        /\ (genCalls[t] = 1 /\ b.generate
              /\ pc[t] \in {"parse", "store", "release", "record", "done"}) =>
             IF b.notReady <= 9
             THEN /\ getCalls[t] = b.notReady + 1
                  /\ report[t] = b.content
                  /\ ret[t].op # "fetch credential report"
             ELSE /\ getCalls[t] = 10
                  /\ ret[t] = Wrap("fetch credential report", Profiles[t], GetErr(10))

C4_Witness ==
    \E t \in Tasks :
        /\ remote[Profiles[t]].notReady = 9
        /\ getCalls[t] = 10
        /\ stores[t] = 1
        /\ pc[t] = "done"

C4_WitnessExhausted ==
    \E t \in Tasks :
        /\ remote[Profiles[t]].notReady = 10
        /\ ret[t] = Wrap("fetch credential report", Profiles[t], GetErr(10))
        /\ pc[t] = "done"

(***************************************************************************)
(* C5: with exclude-root enabled and an arn column in the first header, a  *)
(* merged table holds no row whose cell in the located arn column ends     *)
(* with ":root", holds every other payload row as often as the payload     *)
(* does, and holds nothing else.                                           *)
(***************************************************************************)
C5_RootFilter ==
    (ExcludeRoot /\ MergedOk /\ ArnColumn \in Range(PayloadHeader(Profiles[1]))) =>
        /\ \A p \in Range(Profiles) : \A r \in Range(PayloadRows(p)) :
              Count(Data, <<p>> \o r) =
                  IF IsRootCell(r) THEN 0 ELSE Count(PayloadRows(p), r)
        /\ \A a \in DOMAIN Data :
              \E p \in Range(Profiles) : \E r \in Range(PayloadRows(p)) :
                  Data[a] = <<p>> \o r

C5_Witness ==
    /\ ExcludeRoot
    /\ MergedOk
    /\ \E p \in Range(Profiles) : Odd \in Range(PayloadRows(p))
    /\ \E p \in Range(Profiles) : Root2 \in Range(PayloadRows(p))
    /\ \E a \in DOMAIN Data : Tail(Data[a]) = Alice

AllFetched == mainPc \notin {"dedupe", "dispatch", "wait"} /\ egErr = NoErr

(***************************************************************************)
(* C6: with exclude-root disabled, once every report is fetched (each      *)
(* with a header row, with or without a column named "arn") the run does   *)
(* not fail for want of an arn column, and a merged table holds every      *)
(* data row of every profile.                                              *)
(***************************************************************************)
C6_ArnOnlyWhenExcluding ==
    (~ExcludeRoot /\ AllFetched /\ \A p \in Range(Profiles) : PayloadHeader(p) # << >>) =>
        /\ exit # "unable to locate arn column"
        /\ MergedOk =>
              \A p \in Range(Profiles) : \A r \in Range(PayloadRows(p)) :
                  Count(Data, <<p>> \o r) = Count(PayloadRows(p), r)

(***************************************************************************)
(* C7: with exclude-root enabled and no column named exactly "arn" in the  *)
(* first profile's header, the run ends with the missing-column failure;   *)
(* no table is built and the output file is neither created nor written.   *)
(***************************************************************************)
C7_MissingArnFatal ==
    (ExcludeRoot /\ AllFetched /\ ArnColumn \notin Range(PayloadHeader(Profiles[1]))) =>
        /\ \/ mainPc \in {"sort", "arn"}
           \/ mainPc = "exited" /\ exit = "unable to locate arn column"
        /\ allResults = << >>
        /\ file = "absent"
        /\ written = << >>

C7_Witness ==
    /\ ExcludeRoot
    /\ PayloadHeader(Profiles[1]) = <<"user", "active">>
    /\ mainPc = "exited"
    /\ exit = "unable to locate arn column"

(***************************************************************************)
(* C8: the working set holds each distinct profile of the input exactly    *)
(* once and nothing else, ordered by first appearance ([a, b, a, c, b]     *)
(* gives [a, b, c]), and one task is launched per distinct profile.        *)
(***************************************************************************)
Launched(p) == { t \in Tasks : Profiles[t] = p /\ pc[t] # "idle" }

C8_Dedup ==
    mainPc # "dedupe" =>
        /\ Range(Profiles) = Range(args)
        /\ \A a, b \in DOMAIN Profiles :
              a < b => /\ Profiles[a] # Profiles[b]
                       /\ FirstIndex(args, Profiles[a]) < FirstIndex(args, Profiles[b])
        /\ args = <<Name(1), Name(2), Name(1), Name(3), Name(2)>>
              => Profiles = <<Name(1), Name(2), Name(3)>>
        /\ Tasks = 1..Cardinality(Range(args))
        /\ \A p \in Range(args) : Cardinality(Launched(p)) <= 1
        /\ mainPc # "dispatch" =>
              /\ next = Cardinality(Range(args))
              /\ \A p \in Range(args) : Cardinality(Launched(p)) = 1

C8_Witness ==
    /\ args = <<Name(1), Name(2), Name(1), Name(3), Name(2)>>
    /\ Profiles = <<Name(1), Name(2), Name(3)>>
    /\ mainPc = "exited"

(***************************************************************************)
(* C9: a fetch loads its configuration and requests the generation at      *)
(* most once each; after a configuration failure it has requested neither  *)
(* generation nor retrieval, after a generation failure it has attempted   *)
(* no retrieval, and every retrieval attempt follows exactly one           *)
(* successful generation request of the same fetch.                        *)
(***************************************************************************)
C9_GenerateOnce ==
    \A t \in Tasks :
        LET b == remote[Profiles[t]]
            ended == pc[t] \in {"release", "record", "done"}
        IN
        /\ cfgCalls[t] <= 1
        /\ genCalls[t] <= 1
        /\ (getCalls[t] > 0 \/ pc[t] \in {"get", "sleep"}) =>
              genCalls[t] = 1 /\ b.generate /\ b.config
        /\ (cfgCalls[t] = 1 /\ ~b.config) =>
              /\ ended
              /\ ret[t].op = "loading profile"
              /\ genCalls[t] = 0
              /\ getCalls[t] = 0
        /\ (genCalls[t] = 1 /\ ~b.generate) =>
              /\ ended
              /\ ret[t].op = "generate credential report"
              /\ getCalls[t] = 0

C9_Witness ==
    \E t \in Tasks : getCalls[t] = 10 /\ sleeps[t] >= 9 /\ genCalls[t] = 1

C9_WitnessGenerateFailed ==
    \E t \in Tasks :
        /\ remote[Profiles[t]].config
        /\ ~remote[Profiles[t]].generate
        /\ pc[t] = "done"

(***************************************************************************)
(* C10 as claimed: when the run ends as a fetch failure, the reported      *)
(* error is the error of the task whose fetch failed first in time.        *)
(***************************************************************************)
C10_FirstFailedReported ==
    (mainPc = "exited" /\ exit = "error fetching reports") =>
        egErr = ret[firstFailed]

(***************************************************************************)
(* C10 as amended: a failure cancels or skips no sibling, so when the      *)
(* coordinator leaves the join every task has run its own fetch to the     *)
(* outcome its own remote calls give; a reported fetch failure carries     *)
(* the error of the failed task whose error reached the group first.       *)
(***************************************************************************)
Succeeds(b) ==
    /\ b.config
    /\ b.generate
    /\ b.notReady <= 9
    /\ ~b.content.quote
    /\ \A k \in DOMAIN b.content.records :
          Len(b.content.records[k]) = Len(b.content.records[1])

C10_JoinThenFirstRecorded ==
    /\ mainPc \notin {"dedupe", "dispatch", "wait"} =>
          \A t \in Tasks :
              /\ pc[t] = "done"
              /\ cfgCalls[t] = 1
              /\ Failed(t) <=> ~Succeeds(remote[Profiles[t]])
              /\ stores[t] = IF Failed(t) THEN 0 ELSE 1
    /\ (mainPc = "exited" /\ exit = "error fetching reports") =>
          /\ firstRecorded \in Tasks
          /\ Failed(firstRecorded)
          /\ egErr = ret[firstRecorded]

C10_Witness ==
    /\ mainPc = "exited"
    /\ exit = "error fetching reports"
    /\ firstRecorded # firstFailed
    /\ \E t \in Tasks : stores[t] = 1

(***************************************************************************)
(* C11: when two fetched reports have different (non-empty) headers, no    *)
(* merged table is produced and the run ends as a failure.                 *)
(***************************************************************************)
C11_SchemaChecked ==
    (/\ AllFetched
     /\ \E p, q \in Range(Profiles) :
           /\ PayloadHeader(p) # << >>
           /\ PayloadHeader(q) # << >>
           /\ PayloadHeader(p) # PayloadHeader(q)) =>
        /\ ~MergedOk
        /\ allResults = << >>

(***************************************************************************)
(* C12: a profile whose payload is completely empty has a successful       *)
(* fetch with an empty header and no rows, and a run whose other reports   *)
(* all carry the standard header does not fail after the fetches, whatever *)
(* the position of the empty profile and the exclude-root setting; the     *)
(* empty profile contributes no data rows.                                 *)
(***************************************************************************)
IsEmptyPayload(p) == Succeeds(remote[p]) /\ remote[p].content.records = << >>

C12_EmptyPayloadHarmless ==
    /\ \A t \in Tasks :
          (IsEmptyPayload(Profiles[t]) /\ pc[t] \in {"release", "record", "done"}) =>
              /\ ~Failed(t)
              /\ results[t].header = << >>
              /\ results[t].rows = << >>
    /\ (/\ AllFetched
        /\ \E p \in Range(Profiles) : IsEmptyPayload(p)
        /\ \A p \in Range(Profiles) : IsEmptyPayload(p) \/ PayloadHeader(p) = Hdr) =>
          /\ exit \notin {"unable to locate arn column", "panic: index out of range"}
          /\ MergedOk =>
                \A a \in DOMAIN Data : ~IsEmptyPayload(Data[a][1])

(***************************************************************************)
(* C13: a profile whose payload is a header row (with an arn column) and   *)
(* no data rows has a successful fetch and stops no run: as first profile  *)
(* its header becomes the header of the merged table, in every position    *)
(* it contributes no data row, and the rows of the other profiles are      *)
(* merged as they are.                                                     *)
(***************************************************************************)
IsHeaderOnly(p) ==
    /\ Succeeds(remote[p])
    /\ Len(remote[p].content.records) = 1
    /\ ArnColumn \in Range(PayloadHeader(p))

C13_HeaderOnlyProfile ==
    /\ \A t \in Tasks :
          (IsHeaderOnly(Profiles[t]) /\ pc[t] \in {"release", "record", "done"}) =>
              /\ ~Failed(t)
              /\ results[t].header = PayloadHeader(Profiles[t])
              /\ results[t].rows = << >>
    /\ (AllFetched /\ IsHeaderOnly(Profiles[1])) =>
          /\ exit # "unable to locate arn column"
          /\ MergedOk => allResults[1] = <<"profile">> \o PayloadHeader(Profiles[1])
    /\ (AllFetched /\ \A p \in Range(Profiles) : IsHeaderOnly(p)) =>
          exit \notin {"unable to locate arn column", "panic: index out of range"}
    /\ MergedOk =>
          \A p \in Range(Profiles) :
              IsHeaderOnly(p) =>
                  /\ \A a \in DOMAIN Data : Data[a][1] # p
                  /\ \A q \in Range(Profiles) \ {p} :
                        SelectSeq(Data, LAMBDA r : r[1] = q) =
                            [k \in 1..Len(SelectSeq(PayloadRows(q),
                                     LAMBDA r : ~(ExcludeRoot /\ IsRootCell(r)))) |->
                                <<q>> \o SelectSeq(PayloadRows(q),
                                     LAMBDA r : ~(ExcludeRoot /\ IsRootCell(r)))[k]]

C13_Witness ==
    /\ MergedOk
    /\ IsHeaderOnly(Profiles[1])
    /\ Len(Profiles) = 2
    /\ Len(Data) > 0
    /\ allResults[1] = <<"profile">> \o Hdr

(***************************************************************************)
(* C14: the first row of a merged table is "profile" followed by the       *)
(* first profile's header, and every later row is the identifier of its    *)
(* source profile followed by the cells of one of that profile's payload   *)
(* rows; profiles [acct1, acct2] with the alice row and the root row and   *)
(* exclude-root give exactly the header row and the acct1 alice row, and   *)
(* that table is what a successful run writes.                             *)
(***************************************************************************)
IsExample ==
    /\ args = <<"acct1", "acct2">>
    /\ ExcludeRoot
    /\ remote["acct1"] = Ready(Payload(<< <<"user", "arn", "active">>,
                              <<"alice", "arn:aws:iam::1:user/alice", "true">> >>))
    /\ remote["acct2"] = Ready(Payload(<< <<"user", "arn", "active">>,
                              <<"root", "arn:aws:iam::2:root", "true">> >>))

C14_TableShape ==
    MergedOk =>
        /\ allResults[1] = <<"profile">> \o PayloadHeader(Profiles[1])
        /\ \A a \in DOMAIN Data :
              /\ Data[a][1] \in Range(Profiles)
              /\ Tail(Data[a]) \in Range(PayloadRows(Data[a][1]))
        /\ IsExample =>
              allResults = << <<"profile", "user", "arn", "active">>,
                              <<"acct1", "alice", "arn:aws:iam::1:user/alice", "true">> >>
        /\ exit = "ok" => written = allResults

C14_Witness ==
    /\ IsExample
    /\ exit = "ok"
    /\ Len(written) = 2

(***************************************************************************)
(* C15: a slot of results is written only by the task of that index and    *)
(* at most once; when every fetch succeeded each slot was written exactly  *)
(* once, and from the join on (before the sort as after it) slot k holds   *)
(* the Go index k - 1 and the k-th profile of the working set.             *)
(***************************************************************************)
C15_OwnSlotOnce ==
    /\ \A k \in DOMAIN stores :
          /\ stores[k] <= 1
          /\ stores[k] = Count(stored, k)
          /\ stores[k] = 0 /\ mainPc \in {"dispatch", "wait"} => results[k] = ZeroResult
    /\ AllFetched =>
          \A k \in DOMAIN results :
              /\ pc[k] = "done"
              /\ stores[k] = 1
              /\ results[k].idx = k - 1
              /\ results[k].profile = Profiles[k]
              /\ results[k].header = PayloadHeader(Profiles[k])
              /\ results[k].rows = PayloadRows(Profiles[k])

C15_Witness ==
    /\ mainPc = "arn"
    /\ stored = <<2, 1>>
    /\ results[2].idx = 1
    /\ results[1].profile = Name(1)

(***************************************************************************)
(* C16: when every remote call returns and scheduling is fair, every run   *)
(* ends, also with more profiles than the gate admits: eventually every    *)
(* task has passed the gate and settled, the gate is empty and the         *)
(* coordinator has reported.                                               *)
(***************************************************************************)
Terminated ==
    /\ mainPc = "exited"
    /\ exit # "running"
    /\ \A t \in Tasks : pc[t] = "done" /\ cfgCalls[t] = 1
    /\ sem = 0

C16_Terminates ==
    /\ [](\A t \in Tasks : getCalls[t] <= MaxAttempts)
    /\ <>Terminated

C16_Witness ==
    /\ Terminated
    /\ Len(Profiles) > SemCap
    /\ \E t \in Tasks : stores[t] = 1

(***************************************************************************)
(* C17: every task gives its token back exactly once, on the success path  *)
(* and on every error path, and keeps it during the whole fetch, sleeps    *)
(* included: the tokens in the gate are as many as the tasks admitted and  *)
(* not yet settled, and none is left when the coordinator reports.         *)
(***************************************************************************)
Settled(t) == pc[t] \in {"record", "done"}

Occupying(t) == pc[t] \notin {"idle", "gate"} /\ ~Settled(t)

C17_TokensMatchTasks ==
    /\ sem = Cardinality({t \in Tasks : Occupying(t)})
    /\ \A t \in Tasks : pc[t] = "sleep" => Occupying(t) /\ sem >= 1
    /\ mainPc \notin {"dedupe", "dispatch", "wait"} => sem = 0

C17_Witness ==
    /\ \E t, u \in Tasks :
          /\ Settled(t) /\ Failed(t)
          /\ Settled(u) /\ ~Failed(u)
    /\ \E t \in Tasks : pc[t] = "gate"
    /\ sem = 2

(***************************************************************************)
(* C18: one sleep follows every failed retrieval attempt, the 10th too,    *)
(* and none follows a successful one: a fetch that got its report on       *)
(* attempt k has slept k-1 times, and a fetch that used up all 10 attempts *)
(* has slept 10 times before it returns the retrieval error and gives its  *)
(* token back.                                                             *)
(***************************************************************************)
FailedAttempts(t) ==
    IF getCalls[t] <= remote[Profiles[t]].notReady
    THEN getCalls[t]
    ELSE remote[Profiles[t]].notReady

GotReport(t) == getCalls[t] > remote[Profiles[t]].notReady

Exhausted(t) == ret[t].op = "fetch credential report"

C18_SleepAfterEveryFailure ==
    \A t \in Tasks :
        /\ sleeps[t] = FailedAttempts(t) - (IF pc[t] = "sleep" THEN 1 ELSE 0)
        /\ GotReport(t) => sleeps[t] = getCalls[t] - 1
        /\ Exhausted(t) =>
              /\ sleeps[t] = 10
              /\ getCalls[t] = 10
              /\ pc[t] \in {"release", "record", "done"}
        /\ pc[t] = "release" /\ Exhausted(t) => sem >= 1

C18_Witness ==
    \E t \in Tasks :
        /\ pc[t] = "release"
        /\ sem = 1
        /\ ret[t] = Wrap("fetch credential report", Profiles[t], GetErr(10))
        /\ sleeps[t] = 10

(***************************************************************************)
(* C19: the merge never reads a cell outside a row: with exclude-root      *)
(* enabled, when the rows are about to be inspected the arn index found in *)
(* the first profile's header is at least 0 and below the cell count of    *)
(* every data row of every profile, and no run ends in an index crash.     *)
(***************************************************************************)
C19_ArnIndexInRange ==
    /\ exit # "panic: index out of range"
    /\ (mainPc = "merge" /\ ExcludeRoot) =>
          \A k \in DOMAIN results : \A r \in Range(results[k].rows) :
              0 <= arnIdx /\ arnIdx < Len(r)

====
